---- MODULE Spec2Model ----
(***************************************************************************)
(* A model of pyns: the event-file parser (nsparser.NevParser), the        *)
(* continuous-file parsers (nsparser.Nsx21Parser, nsparser.Nsx22Parser)    *)
(* and the recording session (nsfile.NSFile).                              *)
(*                                                                         *)
(* Three families of specifications share the module:                      *)
(*   SpecNev,     one NevParser over one event file and its byte cursor:   *)
(*   SpecEnum,    SpecNev the random-access reads, SpecEnum the lazy       *)
(*   SpecMixed    enumerations left alone, SpecMixed both in any order;    *)
(*   SpecNsx      one Nsx21Parser / Nsx22Parser: get_analog_data and the   *)
(*                extended headers of Nsx22Parser;                         *)
(*   Spec,        NSFile.__init__ over a discovery list, step by step,     *)
(*   SpecIngest,  and the queries on the finished session: Spec over mixes *)
(*   SpecInfo,    of sound files, SpecIngest over one event file and its   *)
(*   SpecOpen     index tables, SpecInfo over varied basic headers,        *)
(*                SpecOpen over files that ParserFactory may refuse.       *)
(* The code is Python 2: "/" on integers is floor division, which is \div. *)
(***************************************************************************)
EXTENDS Integers, Sequences, FiniteSets, TLC

VARIABLES
    \* ---- NevParser (SpecNev)
    nev,        \* the parser's fields, as NevParser.__init__ leaves them
    pos,        \* the seek cursor of nev's byte source (fid)
    lastOp,     \* the last parser call and what it did
    gen,        \* the lazy enumeration of nev that is under way
    \* ---- Nsx21Parser / Nsx22Parser (SpecNsx)
    nsx,        \* the parser's fields, as __init__ leaves them
    npos,       \* the seek cursor of nsx's byte source
    analog,     \* the last get_analog_data call and its result
    nsxOp,      \* the last get_extended_header call on nsx and what it did
    \* ---- NSFile (Spec, SpecIngest)
    file_list,        \* the discovery list of NSFile.__init__
    pc,               \* where __init__ stands
    fi,               \* the file of file_list the loop is at (from 1)
    _files,           \* NSFile._files: the FileData of each file
    heap,             \* the entity objects, in the order they were created
    entities,         \* NSFile.entities: references into heap
    entity_search,    \* _load_neuralev: electrode id -> segment entity
    entity_labels,    \* _load_neuralev: labels that wait for their electrode
    event_entities,   \* _load_neuralev: reason -> event entity
    neural_entities,  \* _load_neuralev: <<packet id, unit class>> -> neural entity
    ev_headers,       \* the extended headers read from the event file so far
    ev_packets,       \* the data packets read from the event file so far
    err,              \* the exception that ended __init__, "" while there is none
    info,             \* the last answer of a query on the finished session
    fids              \* the files of file_list whose byte source is open

nevVars == <<nev, pos, lastOp, gen>>
nsxVars == <<nsx, npos, analog, nsxOp>>
loadVars == <<entity_search, entity_labels, event_entities, neural_entities,
              ev_headers, ev_packets>>
sessVars == <<file_list, pc, fi, _files, heap, entities, entity_search,
              entity_labels, event_entities, neural_entities, ev_headers,
              ev_packets, err, info, fids>>
vars == <<nev, pos, lastOp, gen, nsx, npos, analog, nsxOp, file_list, pc, fi, _files, heap,
          entities, entity_search, entity_labels, event_entities,
          neural_entities, ev_headers, ev_packets, err, info, fids>>

(***************************************************************************)
(* Bounds of the model.                                                    *)
(***************************************************************************)
MaxExt == 1          \* extended headers of the event file in SpecNev
MaxData == 41        \* bytes after the headers of the event file in SpecNev
MaxChan == 2         \* channels of a continuous file in SpecNsx
MaxRows == 2         \* complete sample rows of a continuous file in SpecNsx
MaxCount == 3        \* start_index and index_count of get_analog_data
MaxHdr == 2          \* extended headers of the event file of a session
MaxPackets == 2      \* data packets of the event file of a session
MaxIngest == 3        \* data packets of the event file in SpecIngest

(***************************************************************************)
(* Program constants.                                                      *)
(***************************************************************************)
NEURALEV_SIZE == 336
NEV_EXT_HEADER_SIZE == 32
NEURALCD_SIZE == 336
CC_SIZE == 66

Min(a, b) == IF a < b THEN a ELSE b
Max(a, b) == IF a > b THEN a ELSE b

\* fid.read(n) with the cursor at p in a file of size bytes: how many bytes come back
ReadLen(size, p, n) == Max(0, Min(n, size - p))

(***************************************************************************)
(*                              NevParser                                  *)
(***************************************************************************)
\* bytes_data_packet values of the modelled event files: the smallest packet
\* (no waveform), an odd stride, the smallest that holds a digital event, and
\* the stride of the spec's example
PacketBytes == {8, 9, 20, 104}

\* what the data packets of the modelled file hold
Contents == {"spikes", "events"}

\* the number of data packets (a short final packet is dropped)
NDataPacketsCeil(size, bytes_headers, bytes_data_packet) ==
    (size - bytes_headers + bytes_data_packet - 1) \div bytes_data_packet

NDataPackets(size, bytes_headers, bytes_data_packet) ==
    (size - bytes_headers) \div bytes_data_packet

\* NevParser.__init__ on a file of `size` bytes whose basic header holds the
\* given fields; `content` stands for the bytes of the data packets
NevParser(size, n_ext_headers, bytes_headers, bytes_data_packet, content) ==
    LET sample_count == (bytes_data_packet - 8) \div 2 IN
    [ size              |-> size,
      n_ext_headers     |-> n_ext_headers,
      bytes_headers     |-> bytes_headers,
      bytes_data_packet |-> bytes_data_packet,
      n_data_packets    |-> NDataPackets(size, bytes_headers, bytes_data_packet),
      sample_count      |-> sample_count,
      \* struct.calcsize("<IH2B{n}h")
      data_packet_size  |-> 8 + 2 * sample_count,
      content           |-> content ]

NoOp == [op |-> "none", arg |-> 0, did_read |-> FALSE, offset |-> 0, got |-> 0,
         result |-> "none"]

\* the packet_id of the packet decoded from the bytes at `offset`: 0 for a
\* digital event
PacketIdAt(p, offset) == IF p.content = "events" THEN 0 ELSE 1

\* position of packet packet_index (the mutant strides by the bytes decoded)
PacketPositionBySize(p, packet_index) ==
    p.bytes_headers + packet_index * p.data_packet_size

PacketPosition(p, packet_index) ==
    p.bytes_headers + packet_index * p.bytes_data_packet

\* the bounds check of get_data_packet (the mutant lets n_data_packets through)
BadPacketIndexOffByOne(p, packet_index) ==
    packet_index > p.n_data_packets \/ packet_index < 0

BadPacketIndex(p, packet_index) ==
    packet_index >= p.n_data_packets \/ packet_index < 0

\* the tail of get_data_packet: read data_packet_size bytes at the cursor `at`,
\* unpack, and build the NEVEvent or the NEVSegment
PacketRead(p, at, name, arg) ==
    LET got == ReadLen(p.size, at, p.data_packet_size) IN
    [ op |-> name, arg |-> arg, did_read |-> TRUE, offset |-> at, got |-> got,
      result |->
        IF got < p.data_packet_size THEN "BadFile"
        \* NEVEvent._make(packet_tup[:10]) needs ten fields
        ELSE IF PacketIdAt(p, at) = 0 /\ p.sample_count < 6 THEN "TypeError"
        ELSE IF PacketIdAt(p, at) = 0 THEN "NEVEvent"
        ELSE "NEVSegment" ]

ReadPacketAt(p, at, name, arg) ==
    /\ pos' = at + PacketRead(p, at, name, arg).got
    /\ lastOp' = PacketRead(p, at, name, arg)

\* NevParser.get_data_packet(packet_index), packet_index given
GetDataPacket(packet_index) ==
    /\ nev.bytes_data_packet > 0
    /\ IF BadPacketIndex(nev, packet_index)
       THEN /\ lastOp' = [ op |-> "get_data_packet", arg |-> packet_index,
                           did_read |-> FALSE, offset |-> 0, got |-> 0,
                           result |-> "BadIndex" ]
            /\ pos' = pos
       ELSE ReadPacketAt(nev, PacketPosition(nev, packet_index),
                         "get_data_packet", packet_index)
    /\ nev' = nev /\ gen' = gen
    /\ UNCHANGED <<nsxVars, sessVars>>

\* NevParser.get_basic_header(): seek to 0 and read the 336 bytes
GetBasicHeader ==
    LET got == ReadLen(nev.size, 0, NEURALEV_SIZE) IN
    /\ pos' = got
    /\ lastOp' = [ op |-> "get_basic_header", arg |-> 0, did_read |-> TRUE,
                   offset |-> 0, got |-> got,
                   result |-> IF got < NEURALEV_SIZE THEN "BadFile" ELSE "NEURALEV" ]
    /\ nev' = nev /\ gen' = gen
    /\ UNCHANGED <<nsxVars, sessVars>>

\* whether an extended header of the file starts at byte `at`
IsHeaderStart(p, at) ==
    \E i \in 0..(p.n_ext_headers - 1) : at = NEURALEV_SIZE + i * NEV_EXT_HEADER_SIZE

\* the tail of get_extended_header: read 32 bytes at the cursor `at`, look at
\* the first eight and unpack. The extended headers of the modelled files
\* are of the four known kinds and no other 32 bytes of them start with the
\* magic of one; unpack raises struct.error on a header that the end of the
\* file cuts short
HeaderRead(p, at, name, arg) ==
    LET got == ReadLen(p.size, at, NEV_EXT_HEADER_SIZE) IN
    [ op |-> name, arg |-> arg, did_read |-> TRUE, offset |-> at, got |-> got,
      result |->
        IF ~IsHeaderStart(p, at) \/ got < 8 THEN "BadFile"
        ELSE IF got < NEV_EXT_HEADER_SIZE THEN "struct.error"
        ELSE "header" ]

\* position of extended header header_index
HeaderPosition(header_index) == NEURALEV_SIZE + header_index * NEV_EXT_HEADER_SIZE

\* the bounds check of get_extended_header
BadHeaderIndex(p, header_index) ==
    header_index >= p.n_ext_headers \/ header_index < 0

\* NevParser.get_extended_header(header_index), header_index given
GetExtendedHeader(header_index) ==
    /\ IF BadHeaderIndex(nev, header_index)
       THEN /\ lastOp' = [ op |-> "get_extended_header", arg |-> header_index,
                           did_read |-> FALSE, offset |-> 0, got |-> 0,
                           result |-> "BadIndex" ]
            /\ pos' = pos
       ELSE /\ lastOp' = HeaderRead(nev, HeaderPosition(header_index),
                                    "get_extended_header", header_index)
            /\ pos' = HeaderPosition(header_index) + lastOp'.got
    /\ nev' = nev /\ gen' = gen
    /\ UNCHANGED <<nsxVars, sessVars>>

\* ---- the lazy enumerations. Calling get_extended_headers() or
\* get_data_packets() makes a generator and runs none of its body; the first
\* next() seeks to the first element, and every next() reads one element at
\* the cursor of the byte source, wherever that is
NoGen == [ kind |-> "none", state |-> "done", i |-> 0 ]

Generator(kind) == [ kind |-> kind, state |-> "created", i |-> 0 ]

\* NevParser.get_extended_headers()
GetExtendedHeaders ==
    /\ gen' = Generator("get_extended_headers")
    /\ UNCHANGED <<nev, pos, lastOp, nsxVars, sessVars>>

\* NevParser.get_data_packets()
GetDataPackets ==
    /\ gen' = Generator("get_data_packets")
    /\ UNCHANGED <<nev, pos, lastOp, nsxVars, sessVars>>

\* the seek a generator starts with (lines 209 and 256)
FirstElement(p, kind) ==
    IF kind = "get_extended_headers" THEN NEURALEV_SIZE ELSE p.bytes_headers

\* range(0, n) of the generator's loop (lines 210 and 258)
ElementCount(p, kind) ==
    IF kind = "get_extended_headers" THEN p.n_ext_headers ELSE p.n_data_packets

\* what the generator's call get_extended_header() / get_data_packet(),
\* without an index, does with the cursor at `at`
ElementRead(p, kind, at, arg) ==
    IF kind = "get_extended_headers" THEN HeaderRead(p, at, kind, arg)
    ELSE PacketRead(p, at, kind, arg)

Yields(read) == read.result \in {"header", "NEVEvent", "NEVSegment"}

\* next() on the generator: it yields its next element, or ends with
\* StopIteration, or ends with the exception of the read
NextElement ==
    /\ gen.kind # "none" /\ gen.state # "done"
    /\ LET at   == IF gen.state = "created" THEN FirstElement(nev, gen.kind)
                   ELSE pos
           read == ElementRead(nev, gen.kind, at, gen.i)
       IN IF gen.i >= ElementCount(nev, gen.kind)
          THEN /\ gen' = [gen EXCEPT !.state = "done"]
               /\ pos' = at
               /\ lastOp' = [ op |-> gen.kind, arg |-> gen.i, did_read |-> FALSE,
                              offset |-> 0, got |-> 0,
                              result |-> "StopIteration" ]
          ELSE /\ gen' = IF Yields(read)
                         THEN [gen EXCEPT !.state = "running", !.i = @ + 1]
                         ELSE [gen EXCEPT !.state = "done"]
               /\ pos' = at + read.got
               /\ lastOp' = read
    /\ nev' = nev
    /\ UNCHANGED <<nsxVars, sessVars>>

\* the event files of SpecNev: well-formed headers, any number of data bytes
\* (also one byte short of the headers), and the spec's example of 10403 bytes
\* of data at a stride of 104
HeaderBytes(n) == NEURALEV_SIZE + n * NEV_EXT_HEADER_SIZE

NevFiles ==
    { f \in
        { NevParser(HeaderBytes(n) + data, n, HeaderBytes(n), b, c) :
            n \in 0..MaxExt, data \in -1..MaxData, b \in PacketBytes,
            c \in Contents } :
        \* __init__ reads the basic header first and fails without one
        f.size >= NEURALEV_SIZE }
    \cup
    { NevParser(HeaderBytes(n) + 10403, n, HeaderBytes(n), 104, c) :
        n \in 0..MaxExt, c \in Contents }

(***************************************************************************)
(*                     Nsx21Parser and Nsx22Parser                         *)
(***************************************************************************)
None == -1           \* Python's None as the index_count argument

\* bytes of an incomplete last row that the modelled files may end with
TailBytes == {0, 1, 2}

\* Nsx21Parser.__init__: period and channel_count come from bytes 24..31
Nsx21Parser(size, period, channel_count) ==
    \* struct.calcsize("8s16s2I{n}I")
    LET header_size == 32 + 4 * channel_count IN
    [ file_type     |-> "NEURALSG",
      size          |-> size,
      channel_count |-> channel_count,
      period        |-> period,
      header_size   |-> header_size,
      bytes_headers |-> header_size,
      n_data_points |-> ((size - header_size) \div 2) \div channel_count,
      \* where get_analog_data takes sample 0 of channel 0 from
      data_start    |-> header_size ]

\* Nsx22Parser.__init__: bytes_headers, period and channel_count come from the
\* basic header
Nsx22Parser(size, period, channel_count, bytes_headers) ==
    [ file_type     |-> "NEURALCD",
      size          |-> size,
      channel_count |-> channel_count,
      period        |-> period,
      header_size   |-> NEURALCD_SIZE,
      bytes_headers |-> bytes_headers,
      n_data_points |-> ((size - bytes_headers) \div channel_count) \div 2,
      data_start    |-> NEURALCD_SIZE + channel_count * CC_SIZE + 9 ]

\* the index_count get_analog_data works with when the caller passes None
DefaultCount(p, start_index) ==
    IF p.file_type = "NEURALSG" THEN p.n_data_points - start_index
    ELSE p.channel_count - start_index

\* the loop of get_analog_data from bin iBin on, the cursor at `at`: the
\* offsets of the samples it reads until index_count are read or a read of two
\* bytes comes back short
RECURSIVE ReadBins(_, _, _, _)
ReadBins(p, at, iBin, index_count) ==
    IF iBin >= index_count THEN <<>>
    ELSE IF ReadLen(p.size, at, 2) < 2 THEN <<>>
    ELSE <<at>> \o ReadBins(p, at + 2 + (2 * p.channel_count - 2), iBin + 1,
                            index_count)

\* the cursor after the loop
RECURSIVE CursorAfter(_, _, _, _)
CursorAfter(p, at, iBin, index_count) ==
    IF iBin >= index_count THEN at
    ELSE IF ReadLen(p.size, at, 2) < 2 THEN at + ReadLen(p.size, at, 2)
    ELSE CursorAfter(p, at + 2 + (2 * p.channel_count - 2), iBin + 1, index_count)

\* the first byte get_analog_data seeks to (the mutant forgets the channel)
FirstSampleNoChannel(p, channel, start_index) ==
    p.data_start + start_index * (p.channel_count * 2)

FirstSample(p, channel, start_index) ==
    p.data_start + start_index * (p.channel_count * 2) + 2 * channel

\* Nsx21Parser.get_analog_data / Nsx22Parser.get_analog_data
GetAnalogData(channel, start_index, index_count) ==
    LET n  == IF index_count = None THEN DefaultCount(nsx, start_index)
              ELSE index_count
        at == FirstSample(nsx, channel, start_index)
    IN
    /\ nsx.file_type # "none"
    /\ IF n < 0
       THEN \* numpy.zeros(n) refuses a negative length
            /\ analog' = [ channel |-> channel, start_index |-> start_index,
                           index_count |-> index_count, offsets |-> <<>>,
                           called |-> TRUE, result |-> "ValueError" ]
            /\ npos' = npos
       ELSE /\ analog' = [ channel |-> channel, start_index |-> start_index,
                           index_count |-> index_count,
                           offsets |-> ReadBins(nsx, at, 0, n),
                           called |-> TRUE, result |-> "waveform" ]
            /\ npos' = CursorAfter(nsx, at, 0, n)
    /\ nsx' = nsx /\ nsxOp' = nsxOp
    /\ UNCHANGED <<nevVars, sessVars>>

\* the bounds check of Nsx22Parser.get_extended_header (line 523)
BadChannelIndex(p, header_index) ==
    header_index > p.channel_count \/ header_index < 0

\* position of CC header header_index
ChannelPosition(header_index) == NEURALCD_SIZE + CC_SIZE * header_index

\* Nsx22Parser.get_extended_header(header_index), header_index given: unpack
\* raises struct.error when fewer than CC_SIZE bytes are left, and makes a CC
\* of whatever 66 bytes it is given
Nsx22GetExtendedHeader(header_index) ==
    LET at  == ChannelPosition(header_index)
        got == ReadLen(nsx.size, at, CC_SIZE)
    IN
    /\ nsx.file_type = "NEURALCD"
    /\ IF BadChannelIndex(nsx, header_index)
       THEN /\ nsxOp' = [ op |-> "get_extended_header", arg |-> header_index,
                          did_read |-> FALSE, offset |-> 0, got |-> 0,
                          result |-> "BadIndex" ]
            /\ npos' = npos
       ELSE /\ nsxOp' = [ op |-> "get_extended_header", arg |-> header_index,
                          did_read |-> TRUE, offset |-> at, got |-> got,
                          result |-> IF got < CC_SIZE THEN "struct.error"
                                     ELSE "CC" ]
            /\ npos' = at + got
    /\ nsx' = nsx /\ analog' = analog
    /\ UNCHANGED <<nevVars, sessVars>>

\* no session: the parser specifications leave NSFile aside
SessIdle ==
    /\ file_list = <<>> /\ pc = "idle" /\ fi = 1
    /\ _files = <<>> /\ heap = <<>> /\ entities = <<>>
    /\ entity_search = <<>> /\ entity_labels = <<>>
    /\ event_entities = <<>> /\ neural_entities = <<>>
    /\ ev_headers = <<>> /\ ev_packets = <<>>
    /\ err = "" /\ info = [ op |-> "none", file_type |-> "", entity_count |-> 0,
                            time_span |-> <<0, 1>> ]
    /\ fids = {}

NoNsx == [ file_type |-> "none", size |-> 0, channel_count |-> 0, period |-> 0,
           header_size |-> 0, bytes_headers |-> 0, n_data_points |-> 0,
           data_start |-> 0 ]
NoAnalog == [ channel |-> 0, start_index |-> 0, index_count |-> 0,
              offsets |-> <<>>, called |-> FALSE, result |-> "none" ]
NoNev == [ size |-> 0, n_ext_headers |-> 0, bytes_headers |-> 0,
           bytes_data_packet |-> 0, n_data_packets |-> 0, sample_count |-> 0,
           data_packet_size |-> 0, content |-> "none" ]

\* the continuous files of SpecNsx: `rows` complete rows of channel_count
\* samples and `tail` bytes of an incomplete one; a NEURALCD file holds them in
\* one data packet, after its 9-byte packet header
DataShapes ==
    { d \in [ cc : 1..MaxChan, rows : 0..MaxRows, tail : TailBytes ] :
        d.tail < 2 * d.cc }

NsxFiles ==
    { Nsx21Parser(32 + 4 * d.cc + 2 * d.cc * d.rows + d.tail, 1, d.cc) :
        d \in DataShapes }
    \cup
    { Nsx22Parser(NEURALCD_SIZE + d.cc * CC_SIZE
                    + (IF d.rows = 0 /\ d.tail = 0 THEN 0
                       ELSE 9 + 2 * d.cc * d.rows + d.tail),
                  1, d.cc, NEURALCD_SIZE + d.cc * CC_SIZE) :
        d \in DataShapes }

InitNsx ==
    /\ nsx \in NsxFiles
    /\ npos = 0
    /\ analog = NoAnalog /\ nsxOp = NoOp
    /\ nev = NoNev /\ pos = 0 /\ lastOp = NoOp /\ gen = NoGen
    /\ SessIdle

NextNsx ==
    \/ \E channel \in 0..(nsx.channel_count - 1), start_index \in 0..MaxCount,
          index_count \in (0..MaxCount) \cup {None} :
           GetAnalogData(channel, start_index, index_count)
    \/ \E header_index \in -1..(nsx.channel_count + 1) :
           Nsx22GetExtendedHeader(header_index)

SpecNsx == InitNsx /\ [][NextNsx]_vars

InitNev ==
    /\ nev \in NevFiles
    /\ pos = 0                      \* __init__ ends with fid.seek(0, SEEK_SET)
    /\ lastOp = NoOp /\ gen = NoGen
    /\ nsx = NoNsx /\ npos = 0 /\ analog = NoAnalog /\ nsxOp = NoOp
    /\ SessIdle

NextNev ==
    \/ \E k \in -1..(Max(nev.n_data_packets, 0) + 1) : GetDataPacket(k)
    \/ GetBasicHeader
    \/ \E header_index \in -1..(nev.n_ext_headers + 1) :
           GetExtendedHeader(header_index)

\* the enumerations alone: nothing else reads the parser between two pulls
NextEnum ==
    \/ GetExtendedHeaders
    \/ GetDataPackets
    \/ NextElement

SpecEnum == InitNev /\ [][NextEnum]_vars

\* the enumerations and the random-access reads of one parser, in any order,
\* over the files of at most MaxData bytes of data
InitMixed ==
    /\ InitNev
    /\ nev.size - nev.bytes_headers <= MaxData

NextMixed ==
    \/ NextNev
    \/ NextEnum

SpecMixed == InitMixed /\ [][NextMixed]_vars

SpecNev == InitNev /\ [][NextNev]_vars

(***************************************************************************)
(*                               NSFile                                    *)
(***************************************************************************)
\* dict[k] = v
Put(m, k, v) == [x \in DOMAIN m \cup {k} |-> IF x = k THEN v ELSE m[x]]

\* ---- the entity classes of pyns.nsentity
BaseEntity(entity_type, parser) ==
    [ entity_type |-> entity_type, parser |-> parser, electrode_id |-> 0,
      unit_class |-> 0, reason |-> 0, label |-> <<>>, item_count |-> 0,
      packet_data |-> <<>>, channel_index |-> 0, sample_freq |-> 0,
      parent |-> 0 ]

SegmentEntity(parser, electrode_id) ==
    [BaseEntity("segment", parser) EXCEPT !.electrode_id = electrode_id]

EventEntity(parser, reason) ==
    [BaseEntity("event", parser) EXCEPT !.reason = reason]

NeuralEntity(parser, electrode_id, unit_class, parent) ==
    [BaseEntity("neural", parser) EXCEPT !.electrode_id = electrode_id,
                                         !.unit_class = unit_class,
                                         !.parent = parent]

\* AnalogEntity.sample_freq: the clock of the file over its period
SampleFreq(f) == f.timestamp_resolution \div f.period

AnalogEntity(parser, f, electrode_id, channel_index) ==
    [BaseEntity("analog", parser) EXCEPT !.electrode_id = electrode_id,
                                         !.channel_index = channel_index,
                                         !.item_count = f.n_data_points,
                                         !.sample_freq = SampleFreq(f)]

\* Entity.add_packet_data(timestamp, packet_index): one more row of the index
\* table
add_packet_data(e, timestamp, packet_index) ==
    [e EXCEPT !.packet_data = Append(@, <<timestamp, packet_index>>)]

\* entity.item_count += 1 (the mutant counts the packet twice)
CountItemTwice(e) == [e EXCEPT !.item_count = @ + 2]

CountItem(e) == [e EXCEPT !.item_count = @ + 1]

\* ---- the files of a session: what their parsers hold after ParserFactory
ContinuousFile(file_type, period, channel_count, n_data_points) ==
    [ file_type |-> file_type, period |-> period, channel_count |-> channel_count,
      n_data_points |-> n_data_points, timestamp_resolution |-> 30000,
      sample_resolution |-> 30000, n_ext_headers |-> 0, n_data_packets |-> 0,
      openable |-> TRUE, complete |-> TRUE, ext |-> "ns2" ]

\* the origin of a recording: the SYSTEMTIME of the basic header as
\* _proc_timestamp_struct keeps it (the day of the week dropped)
TimeOrigin(year, month, day, hour, minute, second, millisecond) ==
    [ year |-> year, month |-> month, day |-> day, hour |-> hour,
      minute |-> minute, second |-> second, millisecond |-> millisecond ]

EventFile(n_ext_headers, n_data_packets) ==
    [ file_type |-> "NEURALEV", period |-> 1, channel_count |-> 0,
      n_data_points |-> 0, timestamp_resolution |-> 30000,
      sample_resolution |-> 30000, n_ext_headers |-> n_ext_headers,
      n_data_packets |-> n_data_packets,
      time_origin |-> TimeOrigin(2013, 5, 17, 14, 30, 45, 250),
      openable |-> TRUE, complete |-> TRUE, ext |-> "nev" ]

\* parser.timestamp_resolution: NevParser takes the sample_resolution field of
\* its header (nsparser.py line 168), Nsx21Parser is at 30 kHz by definition
\* and Nsx22Parser takes the timestamp_resolution field of its header
ParserResolution(f) ==
    IF f.file_type = "NEURALEV" THEN f.sample_resolution
    ELSE f.timestamp_resolution

\* the continuous files a session is built from: a 10 kHz NEURALSG file of two
\* channels, a 30 kHz NEURALCD file and a 10 kHz NEURALCD file
ContPool ==
    { ContinuousFile("NEURALSG", 3, 2, 2),
      ContinuousFile("NEURALCD", 1, 1, 3),
      ContinuousFile("NEURALCD", 3, 1, 1) }

EventPool == { EventFile(h, n) : h \in 0..MaxHdr, n \in 0..MaxPackets }

IsEventFile(f) == f.file_type = "NEURALEV"

\* the discovery lists: the files are distinct, at most one is an event file,
\* and they come in any order (ParserFactory goes by the magic of a file, not
\* by its extension, and glob returns the .ns? siblings in any order)
FileLists ==
    LET Pool == ContPool \cup EventPool IN
    { s \in UNION { [1..n -> Pool] : n \in 0..(Cardinality(ContPool) + 1) } :
        /\ \A i, j \in DOMAIN s : i # j => s[i] # s[j]
        /\ Cardinality({ i \in DOMAIN s : IsEventFile(s[i]) }) <= 1 }

\* ---- the extended headers and data packets an event file may hold
\* a label is the sequence of the characters of its field, NUL for the byte 0
\* that pads it
NUL == "NUL"

Header(header_type, packet_id, label) ==
    [ header_type |-> header_type, packet_id |-> packet_id, label |-> label ]

SessionHeaders ==
    { Header("NEUEVWAV", 1, <<>>), Header("NEUEVWAV", 2, <<>>),
      Header("NEUEVLBL", 1, <<"e", "1", NUL, NUL>>) }

\* a data packet: b is the byte after the packet id, the reason of a digital
\* event (packet_id = 0) and the unit class of a spike
Packet(timestamp, packet_id, b) ==
    [ timestamp |-> timestamp, packet_id |-> packet_id, b |-> b ]

SessionPackets == { Packet(5, id, b) : id \in 0..2, b \in 0..1 }

FileData(parser, file_type) ==
    [ parser |-> parser, file_type |-> file_type, time_span |-> <<0, 1>> ]

\* Nsx21Parser.time_span, Nsx22Parser.time_span:
\* float(n_data_points * period) / timestamp_resolution, as a fraction
ParserTimeSpan(f) == <<f.n_data_points * f.period, f.timestamp_resolution>>

cur == file_list[fi]

\* the file_type property of the three parser classes
ParserFileType(parser) ==
    CASE parser = "NevParser" -> "NEURALEV"
      [] parser = "Nsx21Parser" -> "NEURALSG"
      [] parser = "Nsx22Parser" -> "NEURALCD"

Raised(kind, opened) == [ err |-> kind, parser |-> "", opened |-> opened ]
Returned(parser) == [ err |-> "", parser |-> parser, opened |-> TRUE ]

\* nsparser.ParserFactory(filename) on file f. f.file_type is what read(8)
\* returns, f.openable whether open() succeeds and f.complete whether the
\* constructor of the parser can read the headers it wants: NevParser raises
\* NS_BADFILE from get_basic_header when it cannot, the two continuous parsers
\* let the struct.error of unpack through. `opened` tells whether open()
\* returned a byte source; nothing in ParserFactory closes it. (The variant
\* takes a .nev file for an event file whatever its first bytes are.)
ParserFactoryByExtension(f) ==
    IF ~f.openable THEN Raised("BadFile", FALSE)
    ELSE IF f.ext = "nev"
    THEN IF f.complete THEN Returned("NevParser") ELSE Raised("BadFile", TRUE)
    ELSE IF f.file_type = "NEURALSG"
    THEN IF f.complete THEN Returned("Nsx21Parser") ELSE Raised("struct.error", TRUE)
    ELSE IF f.file_type = "NEURALCD"
    THEN IF f.complete THEN Returned("Nsx22Parser") ELSE Raised("struct.error", TRUE)
    ELSE Raised("BadFile", TRUE)

ParserFactory(f) ==
    IF ~f.openable THEN Raised("BadFile", FALSE)
    ELSE IF f.file_type = "NEURALEV"
    THEN IF f.complete THEN Returned("NevParser") ELSE Raised("BadFile", TRUE)
    ELSE IF f.file_type = "NEURALSG"
    THEN IF f.complete THEN Returned("Nsx21Parser") ELSE Raised("struct.error", TRUE)
    ELSE IF f.file_type = "NEURALCD"
    THEN IF f.complete THEN Returned("Nsx22Parser") ELSE Raised("struct.error", TRUE)
    ELSE Raised("BadFile", TRUE)

Fail(kind) ==
    /\ pc' = "failed"
    /\ err' = kind

\* line 109: ParserFactory raises and the exception leaves __init__
OpenFails ==
    /\ pc = "open" /\ fi <= Len(file_list)
    /\ ParserFactory(cur).err # ""
    /\ Fail(ParserFactory(cur).err)
    /\ fids' = IF ParserFactory(cur).opened THEN fids \cup {fi} ELSE fids
    /\ UNCHANGED <<file_list, fi, _files, heap, entities, loadVars, info>>
    /\ UNCHANGED <<nevVars, nsxVars>>

\* __del__ of the parsers (fid.close()) and of the file objects: the byte
\* sources close when the interpreter reclaims the objects of a failed
\* construction, at some point after the exception has reached the caller
Reclaim ==
    /\ pc = "failed" /\ fids # {}
    /\ fids' = {}
    /\ UNCHANGED <<file_list, pc, fi, _files, heap, entities, loadVars, err, info>>
    /\ UNCHANGED <<nevVars, nsxVars>>

\* line 105: an empty discovery list
NoFiles ==
    /\ pc = "open" /\ file_list = <<>>
    /\ Fail("BadFile")
    /\ UNCHANGED <<file_list, fi, _files, heap, entities, loadVars, info>>
    /\ UNCHANGED <<nevVars, nsxVars, fids>>

\* lines 108-114: the loop reaches an event file; _load_neuralev starts
OpenEvent ==
    /\ pc = "open" /\ fi <= Len(file_list)
    /\ ParserFactory(cur).parser = "NevParser"
    /\ fids' = fids \cup {fi}
    /\ _files' = Append(_files, FileData(fi, ParserFileType(ParserFactory(cur).parser)))
    /\ entity_search' = <<>> /\ entity_labels' = <<>>
    /\ event_entities' = <<>> /\ neural_entities' = <<>>
    /\ ev_headers' = <<>> /\ ev_packets' = <<>>
    /\ pc' = "headers"
    /\ UNCHANGED <<file_list, fi, heap, entities, err, info>>
    /\ UNCHANGED <<nevVars, nsxVars>>

\* the AnalogEntity objects of the channels of file f, in channel order
RECURSIVE ChannelEntities(_, _, _)
ChannelEntities(parser, f, channel_index) ==
    IF channel_index >= f.channel_count THEN <<>>
    ELSE <<AnalogEntity(parser, f, channel_index + 1, channel_index)>>
         \o ChannelEntities(parser, f, channel_index + 1)

\* the FileData entries a continuous file leaves in _files: the NEURALSG
\* branch appends its FileData a second time (line 126)
FilesEntries(parser, f) ==
    LET file_type == ParserFileType(ParserFactory(f).parser)
        d == [FileData(parser, file_type) EXCEPT !.time_span = ParserTimeSpan(f)]
    IN IF file_type = "NEURALSG" THEN <<d, d>> ELSE <<d>>

\* lines 108-111 and 115-142: the loop takes a continuous file
OpenContinuous ==
    /\ pc = "open" /\ fi <= Len(file_list)
    /\ ParserFactory(cur).parser \in {"Nsx21Parser", "Nsx22Parser"}
    /\ fids' = fids \cup {fi}
    /\ LET new == ChannelEntities(fi, cur, 0) IN
        /\ heap' = heap \o new
        /\ entities' = entities \o [k \in 1..Len(new) |-> Len(heap) + k]
    /\ _files' = _files \o FilesEntries(fi, cur)
    /\ fi' = fi + 1
    /\ UNCHANGED <<file_list, pc, loadVars, err, info>>
    /\ UNCHANGED <<nevVars, nsxVars>>

\* label.split("\0")[0]: the characters before the first NUL
RECURSIVE SplitNul(_)
SplitNul(label) ==
    IF label = <<>> \/ Head(label) = NUL THEN <<>>
    ELSE <<Head(label)>> \o SplitNul(Tail(label))

\* lines 184-199: one extended header of the event file
ReadHeader(H) ==
    /\ pc = "headers" /\ Len(ev_headers) < cur.n_ext_headers
    /\ \E header \in H :
        \* an electrode is declared by one NEUEVWAV header
        /\ header.header_type = "NEUEVWAV" => header.packet_id \notin DOMAIN entity_search
        /\ ev_headers' = Append(ev_headers, header)
        /\ IF header.header_type = "UNKNOWN"
           THEN \* get_extended_header raises NS_BADFILE
                /\ Fail("BadFile")
                /\ UNCHANGED <<heap, entities, entity_search, entity_labels>>
           ELSE /\ UNCHANGED <<pc, err>>
                /\ IF header.header_type = "NEUEVWAV"
                   THEN /\ heap' = Append(heap, SegmentEntity(fi, header.packet_id))
                        /\ entities' = Append(entities, Len(heap) + 1)
                        /\ entity_search' =
                              Put(entity_search, header.packet_id, Len(heap) + 1)
                        /\ UNCHANGED entity_labels
                   ELSE IF header.header_type = "NEUEVLBL"
                   THEN IF header.packet_id \in DOMAIN entity_search
                        THEN /\ heap' = [heap EXCEPT
                                    ![entity_search[header.packet_id]].label =
                                        SplitNul(header.label)]
                             /\ UNCHANGED <<entities, entity_search, entity_labels>>
                        ELSE /\ entity_labels' =
                                    Put(entity_labels, header.packet_id, header.label)
                             /\ UNCHANGED <<heap, entities, entity_search>>
                   ELSE UNCHANGED <<heap, entities, entity_search, entity_labels>>
    /\ UNCHANGED <<file_list, fi, _files, event_entities, neural_entities,
                   ev_packets, info>>
    /\ UNCHANGED <<nevVars, nsxVars, fids>>

\* lines 214-220: the labels that waited for their electrode
\* (the variant attaches the label as the header holds it)
RECURSIVE AttachLabelsUnsplit(_, _, _)
AttachLabelsUnsplit(h, search, labels) ==
    IF DOMAIN labels = {} THEN h
    ELSE LET electrode_id == CHOOSE k \in DOMAIN labels : TRUE
             rest == [k \in DOMAIN labels \ {electrode_id} |-> labels[k]]
         IN IF electrode_id \in DOMAIN search
            THEN AttachLabelsUnsplit([h EXCEPT ![search[electrode_id]].label =
                                                   labels[electrode_id]],
                                     search, rest)
            ELSE AttachLabelsUnsplit(h, search, rest)

RECURSIVE AttachLabels(_, _, _)
AttachLabels(h, search, labels) ==
    IF DOMAIN labels = {} THEN h
    ELSE LET electrode_id == CHOOSE k \in DOMAIN labels : TRUE
             rest == [k \in DOMAIN labels \ {electrode_id} |-> labels[k]]
         IN IF electrode_id \in DOMAIN search
            THEN AttachLabels([h EXCEPT ![search[electrode_id]].label =
                                            SplitNul(labels[electrode_id])],
                              search, rest)
            \* KeyError: a warning, nothing else
            ELSE AttachLabels(h, search, rest)

\* lines 204-226: the headers are read; the data packets come next
FinishHeaders ==
    /\ pc = "headers" /\ Len(ev_headers) = cur.n_ext_headers
    /\ heap' = AttachLabels(heap, entity_search, entity_labels)
    /\ pc' = "packets"
    /\ UNCHANGED <<file_list, fi, _files, entities, loadVars, err, info>>
    /\ UNCHANGED <<nevVars, nsxVars, fids>>

\* enumerate(parser.get_data_packets()) counts the packets from 0 (the mutant
\* counts them from 1)
PacketOrdinalFromOne(n_read) == n_read + 1

PacketOrdinal(n_read) == n_read

\* lines 229-252: one data packet of the event file
ReadPacket(P) ==
    /\ pc = "packets" /\ Len(ev_packets) < cur.n_data_packets
    /\ \E packet \in P :
        LET ipacket == PacketOrdinal(Len(ev_packets)) IN
        /\ ev_packets' = Append(ev_packets, packet)
        /\ IF packet.packet_id = 0
           THEN \* a digital event
                LET reason == packet.b
                    known  == reason \in DOMAIN event_entities
                    id     == IF known THEN event_entities[reason] ELSE Len(heap) + 1
                    heap1  == IF known THEN heap
                              ELSE Append(heap, EventEntity(fi, reason))
                IN
                /\ heap' = [heap1 EXCEPT ![id] =
                              CountItem(add_packet_data(@, packet.timestamp, ipacket))]
                /\ entities' = IF known THEN entities ELSE Append(entities, id)
                /\ event_entities' = Put(event_entities, reason, id)
                /\ UNCHANGED <<neural_entities, pc, err>>
           ELSE IF packet.packet_id \notin DOMAIN entity_search
           THEN \* entity_search[packet.packet_id] raises KeyError
                /\ Fail("KeyError")
                /\ UNCHANGED <<heap, entities, event_entities, neural_entities>>
           ELSE \* a spike of a declared electrode
                LET seg        == entity_search[packet.packet_id]
                    unit_class == packet.b
                    key        == <<packet.packet_id, unit_class>>
                    known      == key \in DOMAIN neural_entities
                    nid        == IF known THEN neural_entities[key]
                                  ELSE Len(heap) + 1
                    heap1      == [heap EXCEPT ![seg] =
                                     add_packet_data(CountItem(@), packet.timestamp,
                                                     ipacket)]
                    heap2      == IF known THEN heap1
                                  ELSE Append(heap1,
                                         NeuralEntity(fi, heap[seg].electrode_id,
                                                      unit_class, seg))
                IN
                /\ heap' = [heap2 EXCEPT ![nid] = CountItem(@)]
                /\ neural_entities' = Put(neural_entities, key, nid)
                /\ UNCHANGED <<entities, event_entities, pc, err>>
    /\ UNCHANGED <<file_list, fi, _files, entity_search, entity_labels,
                   ev_headers, info>>
    /\ UNCHANGED <<nevVars, nsxVars, fids>>

\* (a, b) < (c, d) as Python orders the keys
KeyLess(k1, k2) == k1[1] < k2[1] \/ (k1[1] = k2[1] /\ k1[2] < k2[2])

\* sorted(keys): first by packet id (line 260), then by unit class (line 262)
RECURSIVE SortedKeys(_)
SortedKeys(S) ==
    IF S = {} THEN <<>>
    ELSE LET least == CHOOSE k \in S : \A o \in S \ {k} : KeyLess(k, o)
         IN <<least>> \o SortedKeys(S \ {least})

\* lines 253-264: the end of _load_neuralev
FinishEvent ==
    /\ pc = "packets" /\ Len(ev_packets) = cur.n_data_packets
    /\ IF ev_packets = <<>>
       THEN \* line 255 reads `packet`, which the loop never bound
            /\ Fail("UnboundLocalError")
            /\ UNCHANGED <<_files, entities, fi>>
       ELSE LET packet == ev_packets[Len(ev_packets)]
                keys   == SortedKeys(DOMAIN neural_entities)
            IN
            \* line 255: float(packet.timestamp) / parser.timestamp_resolution
            /\ _files' = [_files EXCEPT ![Len(_files)].time_span =
                            <<packet.timestamp, ParserResolution(cur)>>]
            /\ entities' = entities \o [k \in 1..Len(keys) |-> neural_entities[keys[k]]]
            /\ fi' = fi + 1
            /\ pc' = "open"
            /\ err' = err
    /\ UNCHANGED <<file_list, heap, loadVars, info>>
    /\ UNCHANGED <<nevVars, nsxVars, fids>>

\* sorted(set(...)) of numbers
RECURSIVE SortedSeq(_)
SortedSeq(S) ==
    IF S = {} THEN <<>>
    ELSE LET least == CHOOSE x \in S : \A y \in S : x <= y
         IN <<least>> \o SortedSeq(S \ {least})

\* list.insert(index, x) for index >= 0: past the end it appends (the mutant
\* assigns to the place instead)
ListAssign(s, index, x) ==
    IF index >= Len(s) THEN Append(s, x)
    ELSE [s EXCEPT ![index + 1] = x]

ListInsert(s, index, x) ==
    IF index >= Len(s) THEN Append(s, x)
    ELSE SubSeq(s, 1, index) \o <<x>> \o SubSeq(s, index + 1, Len(s))

\* lines 162-166: insert the entities of `want` one after the other
RECURSIVE InsertAll(_, _, _)
InsertAll(s, insert_index, want) ==
    IF want = <<>> THEN s
    ELSE InsertAll(ListInsert(s, insert_index, Head(want)), insert_index + 1,
                   Tail(want))

\* the analog entities in the order lines 162-166 take them: frequency by
\* frequency, each frequency in list order
RECURSIVE ByFrequency(_, _, _)
ByFrequency(h, analog_entities, sample_freqs) ==
    IF sample_freqs = <<>> THEN <<>>
    ELSE SelectSeq(analog_entities,
                   LAMBDA e : h[e].sample_freq = Head(sample_freqs))
         \o ByFrequency(h, analog_entities, Tail(sample_freqs))

IsType(h, e, entity_type) == h[e].entity_type = entity_type

\* lines 146-150: the neural entities go to the end of the list
NeuralLast(h, ents) ==
    SelectSeq(ents, LAMBDA e : ~IsType(h, e, "neural"))
    \o SelectSeq(ents, LAMBDA e : IsType(h, e, "neural"))

\* line 156: the places of the segment and event entities, counted from 1
SegmentEventPlaces(h, ents) ==
    { i \in 1..Len(ents) : IsType(h, ents[i], "segment") \/ IsType(h, ents[i], "event") }

SetMax(S) == CHOOSE x \in S : \A y \in S : y <= x

\* lines 151-166 on the list that NeuralLast left; the caller has checked
\* that a segment or event entity exists
AnalogByFrequency(h, ents) ==
    LET analog_entities == SelectSeq(ents, LAMBDA e : IsType(h, e, "analog"))
        sample_freqs    == SortedSeq({ h[analog_entities[i]].sample_freq :
                                        i \in 1..Len(analog_entities) })
        \* [...][-1] + 1, from 0: just past the last segment or event entity
        insert_index    == SetMax(SegmentEventPlaces(h, ents))
        others          == SelectSeq(ents, LAMBDA e : ~IsType(h, e, "analog"))
    IN InsertAll(others, insert_index,
                 ByFrequency(h, analog_entities, sample_freqs))

\* lines 146-166: the loop over the files is over; order the entity list
Reorder ==
    /\ pc = "open" /\ file_list # <<>> /\ fi > Len(file_list)
    /\ LET ents == NeuralLast(heap, entities) IN
       IF SegmentEventPlaces(heap, ents) = {}
       THEN \* [][-1] raises IndexError
            /\ Fail("IndexError")
            /\ entities' = ents
       ELSE /\ entities' = AnalogByFrequency(heap, ents)
            /\ pc' = "done"
            /\ err' = err
    /\ UNCHANGED <<file_list, fi, _files, heap, loadVars, info>>
    /\ UNCHANGED <<nevVars, nsxVars, fids>>

\* ---- the queries on the finished session
\* NSFile.has_file_type
has_file_type(fs, file_type) == \E i \in 1..Len(fs) : fs[i].file_type = file_type

\* lines 354-363 of get_file_info (the mutant forgets the NEURALSG files)
FileTypeStringNoSG(fs) ==
    IF has_file_type(fs, "NEURALEV")
    THEN IF has_file_type(fs, "NEURALCD") THEN "NEURALEV+ NEURAL" ELSE "NEURALEV"
    ELSE IF has_file_type(fs, "NEURALCD") THEN "NEURAL" ELSE ""

FileTypeString(fs) ==
    IF has_file_type(fs, "NEURALEV")
    THEN IF has_file_type(fs, "NEURALCD") \/ has_file_type(fs, "NEURALSG")
         THEN "NEURALEV+ NEURAL"
         ELSE "NEURALEV"
    ELSE IF has_file_type(fs, "NEURALCD") \/ has_file_type(fs, "NEURALSG")
         THEN "NEURAL"
         ELSE ""

\* NSFile.get_entity_count
get_entity_count(ents) == Len(ents)

\* a / b > c / d for positive b and d
FracGreater(x, y) == x[1] * y[2] > y[1] * x[2]

\* lines 364-366: the greatest time_span of the files
\* (the variant keeps the span of the last file)
LastTimeSpan(fs, i, time_span) ==
    IF fs = <<>> THEN time_span ELSE fs[Len(fs)].time_span

RECURSIVE MaxTimeSpan(_, _, _)
MaxTimeSpan(fs, i, time_span) ==
    IF i > Len(fs) THEN time_span
    ELSE MaxTimeSpan(fs, i + 1,
                     IF FracGreater(fs[i].time_span, time_span)
                     THEN fs[i].time_span ELSE time_span)

NoInfo == [ op |-> "none", file_type |-> "", entity_count |-> 0,
            time_span |-> <<0, 1>> ]

\* lines 340-347: the origin get_file_info starts from
NoOrigin == TimeOrigin(0, 0, 0, 0, 0, 0, 0)

\* lines 364-385: the header of the last NEURALEV file of _files, from which
\* get_file_info takes the origin and the resolution; `found` when there is none
RECURSIVE EventHeader(_, _, _)
EventHeader(fs, i, found) ==
    IF i > Len(fs) THEN found
    ELSE EventHeader(fs, i + 1,
                     IF fs[i].file_type = "NEURALEV" THEN file_list[fs[i].parser]
                     ELSE found)

NoHeader == [ file_type |-> "" ]

\* line 383: timestamp_resolution = 1.0 / header.sample_resolution, a fraction;
\* 0.0 without an event file (line 341)
InfoResolution(header) ==
    IF header = NoHeader THEN <<0, 1>> ELSE <<1, header.sample_resolution>>

\* lines 370-376: the fields of header.time_origin
InfoOrigin(header) ==
    IF header = NoHeader THEN NoOrigin
    ELSE \* the datetime holds microseconds: millisec = microsecond / 1000
         [header.time_origin EXCEPT !.millisecond = (@ * 1000) \div 1000]

\* NSFile.get_file_info as a value
get_file_info ==
    LET header == EventHeader(_files, 1, NoHeader) IN
    [ op |-> "get_file_info",
      file_type |-> FileTypeString(_files),
      entity_count |-> get_entity_count(entities),
      timestamp_resolution |-> InfoResolution(header),
      time_span |-> MaxTimeSpan(_files, 1, <<0, 1>>),
      time_origin |-> InfoOrigin(header) ]

\* NSFile.get_file_info
GetFileInfo ==
    /\ pc = "done"
    /\ info' = get_file_info
    /\ UNCHANGED <<file_list, pc, fi, _files, heap, entities, loadVars, err>>
    /\ UNCHANGED <<nevVars, nsxVars, fids>>

\* datetime.datetime(year, month, day, hour, minute, second, microsecond)
DateTime(year, month, day, hour, minute, second, microsecond) ==
    IF year < 1 \/ month \notin 1..12 \/ day \notin 1..31 \/ hour \notin 0..23
       \/ minute \notin 0..59 \/ second \notin 0..59
       \/ microsecond \notin 0..999999
    THEN [ err |-> "ValueError", time |-> NoOrigin ]
    ELSE [ err |-> "",
           time |-> TimeOrigin(year, month, day, hour, minute, second,
                               microsecond \div 1000) ]

\* NSFile.get_time, lines 304-307: the arguments as the code passes them
get_time ==
    LET i == get_file_info.time_origin IN
    DateTime(i.year, i.month, i.day, i.hour, i.second, i.hour, i.millisecond)

GetTime ==
    /\ pc = "done"
    /\ LET r == get_time IN
       info' = [ op |-> "get_time", err |-> r.err, time |-> r.time ]
    /\ UNCHANGED <<file_list, pc, fi, _files, heap, entities, loadVars, err>>
    /\ UNCHANGED <<nevVars, nsxVars, fids>>

\* list[index] of Python, index from 0: a negative index counts from the end
ListIndex(s, index) ==
    IF index >= 0 /\ index < Len(s) THEN [ err |-> "", item |-> s[index + 1] ]
    ELSE IF index < 0 /\ index >= -Len(s)
    THEN [ err |-> "", item |-> s[Len(s) + index + 1] ]
    ELSE [ err |-> "IndexError", item |-> 0 ]

\* NSFile.get_entity(entity_index): any exception of the lookup becomes
\* NS_BADENTITY
get_entity(entity_index) ==
    LET r == ListIndex(entities, entity_index) IN
    IF r.err # "" THEN [ err |-> "BadEntity", entity |-> 0 ]
    ELSE [ err |-> "", entity |-> r.item ]

GetEntity ==
    /\ pc = "done"
    /\ \E entity_index \in (-Len(entities) - 1)..Len(entities) :
        LET r == get_entity(entity_index) IN
        info' = [ op |-> "get_entity", entity_index |-> entity_index,
                  err |-> r.err, entity |-> r.entity ]
    /\ UNCHANGED <<file_list, pc, fi, _files, heap, entities, loadVars, err>>
    /\ UNCHANGED <<nevVars, nsxVars, fids>>

SessInit(lists) ==
    /\ file_list \in lists
    /\ pc = "open" /\ fi = 1
    /\ _files = <<>> /\ heap = <<>> /\ entities = <<>>
    /\ entity_search = <<>> /\ entity_labels = <<>>
    /\ event_entities = <<>> /\ neural_entities = <<>>
    /\ ev_headers = <<>> /\ ev_packets = <<>>
    /\ err = "" /\ info = NoInfo
    /\ fids = {}

NevIdle == nev = NoNev /\ pos = 0 /\ lastOp = NoOp /\ gen = NoGen
NsxIdle == nsx = NoNsx /\ npos = 0 /\ analog = NoAnalog /\ nsxOp = NoOp

\* the state at line 105 of NSFile.__init__, the discovery list made
Init == SessInit(FileLists) /\ NevIdle /\ NsxIdle

Next ==
    \/ NoFiles
    \/ OpenEvent
    \/ OpenContinuous
    \/ ReadHeader(SessionHeaders)
    \/ FinishHeaders
    \/ ReadPacket(SessionPackets)
    \/ FinishEvent
    \/ Reorder
    \/ GetFileInfo

Spec == Init /\ [][Next]_vars

(***************************************************************************)
(*        The index tables of an event file and the time queries           *)
(***************************************************************************)
\* ---- the time queries of pyns.nsentity on a segment or event entity.
\* Times are seconds, kept as fractions <<ticks, ticks per second>>.
TimeLess(x, y) == x[1] * y[2] < y[1] * x[2]
TimeEqual(x, y) == x[1] * y[2] = y[1] * x[2]
TimeLessEq(x, y) == TimeLess(x, y) \/ TimeEqual(x, y)

HasTable(e) == e.entity_type \in {"segment", "event"}

\* the time of row `index` (from 0) of the timestamp column: ticks over the
\* resolution of the entity's parser
RowTime(e, index) ==
    <<e.packet_data[index + 1][1], ParserResolution(file_list[e.parser])>>

\* Entity.get_time_by_index(index)
get_time_by_index(e, index) ==
    IF index < 0 \/ index >= e.item_count
    THEN [ err |-> "BadIndex", time |-> <<0, 1>> ]
    ELSE IF index >= Len(e.packet_data)
    THEN [ err |-> "IndexError", time |-> <<0, 1>> ]
    ELSE [ err |-> "", time |-> RowTime(e, index) ]

\* lower-bound bisection over the rows lo..hi-1: the first row whose time is
\* not before t; -1 when the search reads a row the table does not hold
RECURSIVE BisectLeft(_, _, _, _)
BisectLeft(e, t, lo, hi) ==
    IF lo >= hi THEN lo
    ELSE LET mid == (lo + hi) \div 2 IN
         IF mid >= Len(e.packet_data) THEN -1
         ELSE IF TimeLess(RowTime(e, mid), t)
              THEN BisectLeft(e, t, mid + 1, hi)
              ELSE BisectLeft(e, t, lo, mid)

\* upper-bound bisection over the rows lo..hi-1: the first row after t
RECURSIVE BisectRight(_, _, _, _)
BisectRight(e, t, lo, hi) ==
    IF lo >= hi THEN lo
    ELSE LET mid == (lo + hi) \div 2 IN
         IF mid >= Len(e.packet_data) THEN -1
         ELSE IF TimeLess(t, RowTime(e, mid))
              THEN BisectRight(e, t, lo, mid)
              ELSE BisectRight(e, t, mid + 1, hi)

Flags == {"before", "at", "after"}

Found(index) == [ err |-> "", index |-> index ]
NotFound(kind) == [ err |-> kind, index |-> 0 ]

\* Entity.get_index_by_time(t, flag)
get_index_by_time(e, t, flag) ==
    IF flag = "before"
    THEN LET r == BisectRight(e, t, 0, e.item_count) IN
         IF r = -1 THEN NotFound("IndexError")
         ELSE IF r = 0 THEN NotFound("BadIndex")
         ELSE Found(r - 1)
    ELSE LET l == BisectLeft(e, t, 0, e.item_count) IN
         IF l = -1 THEN NotFound("IndexError")
         ELSE IF l >= e.item_count THEN NotFound("BadIndex")
         ELSE IF flag = "at" /\ ~TimeEqual(RowTime(e, l), t)
              THEN NotFound("BadIndex")
              ELSE Found(l)

\* NevParser.get_data_packet(packet_index) on the event file of the session
SessionDataPacket(packet_index) ==
    IF packet_index < 0 \/ packet_index >= Len(ev_packets)
    THEN [ err |-> "BadIndex", packet |-> Packet(0, 0, 0) ]
    ELSE [ err |-> "", packet |-> ev_packets[packet_index + 1] ]

\* EventEntity.get_event_data(index), SegmentEntity.get_segment_data(index):
\* the packet that row `index` of the table names, and its time
get_item_data(e, index) ==
    IF index < 0 \/ index >= e.item_count
    THEN [ err |-> "BadIndex", time |-> <<0, 1>>, packet |-> Packet(0, 0, 0) ]
    ELSE IF index >= Len(e.packet_data)
    THEN [ err |-> "IndexError", time |-> <<0, 1>>, packet |-> Packet(0, 0, 0) ]
    ELSE LET r == SessionDataPacket(e.packet_data[index + 1][2]) IN
         [ err |-> r.err,
           time |-> <<r.packet.timestamp, ParserResolution(file_list[e.parser])>>,
           packet |-> r.packet ]

\* the times a caller asks for, in ticks of the 30 kHz clock
QueryTimes == { <<ticks, 30000>> : ticks \in 0..4 }

\* The queries read the session and change nothing of it, so each is taken
\* as the first query on the finished session.
\* a caller takes entity k of the list and asks for the time of an item
GetTimeByIndex ==
    /\ pc = "done" /\ info = NoInfo
    /\ \E k \in 1..Len(entities) :
        LET e == heap[entities[k]] IN
        /\ HasTable(e)
        /\ \E index \in -1..e.item_count :
            LET r == get_time_by_index(e, index) IN
            info' = [ op |-> "get_time_by_index", entity |-> entities[k],
                      index |-> index, err |-> r.err, time |-> r.time ]
    /\ UNCHANGED <<file_list, pc, fi, _files, heap, entities, loadVars, err>>
    /\ UNCHANGED <<nevVars, nsxVars, fids>>

\* a caller takes entity k of the list and asks for the item at a time
GetIndexByTime ==
    /\ pc = "done" /\ info = NoInfo
    /\ \E k \in 1..Len(entities) :
        LET e == heap[entities[k]] IN
        /\ HasTable(e)
        /\ \E t \in QueryTimes, flag \in Flags :
            LET r == get_index_by_time(e, t, flag) IN
            info' = [ op |-> "get_index_by_time", entity |-> entities[k],
                      time |-> t, flag |-> flag, err |-> r.err,
                      index |-> r.index ]
    /\ UNCHANGED <<file_list, pc, fi, _files, heap, entities, loadVars, err>>
    /\ UNCHANGED <<nevVars, nsxVars, fids>>

\* a caller takes entity k of the list and reads the data of an item
GetItemData ==
    /\ pc = "done" /\ info = NoInfo
    /\ \E k \in 1..Len(entities) :
        LET e == heap[entities[k]] IN
        /\ HasTable(e)
        /\ \E index \in 0..(e.item_count - 1) :
            LET r == get_item_data(e, index) IN
            info' = [ op |-> "get_item_data", entity |-> entities[k],
                      index |-> index, err |-> r.err, time |-> r.time,
                      packet |-> r.packet ]
    /\ UNCHANGED <<file_list, pc, fi, _files, heap, entities, loadVars, err>>
    /\ UNCHANGED <<nevVars, nsxVars, fids>>

\* ---- SpecIngest: a session of one event file whose packets carry the
\* timestamps 1 and 3 in any order, and the queries on its entities
IngestHeaders == { Header("NEUEVWAV", 1, <<>>), Header("NEUEVWAV", 2, <<>>) }

IngestPackets == { Packet(ts, id, b) : ts \in {1, 3}, id \in 0..1, b \in 0..1 }

IngestLists ==
    { <<EventFile(h, n)>> : h \in 0..MaxHdr, n \in 0..MaxIngest }

InitIngest == SessInit(IngestLists) /\ NevIdle /\ NsxIdle

NextIngest ==
    \/ OpenEvent
    \/ ReadHeader(IngestHeaders)
    \/ FinishHeaders
    \/ ReadPacket(IngestPackets)
    \/ FinishEvent
    \/ Reorder
    \/ GetTimeByIndex
    \/ GetIndexByTime
    \/ GetItemData

SpecIngest == InitIngest /\ [][NextIngest]_vars

\* ---- SpecInfo: sessions of one event file, alone or next to one continuous
\* file, whose basic header varies: the timestamp_resolution field is that
\* of the sample clock or 1 (as Ripple files store it), and the origin is one
\* of two calendar times
Origins ==
    { TimeOrigin(2013, 5, 17, 14, 30, 45, 250), TimeOrigin(2013, 5, 17, 7, 7, 7, 0) }

InfoEventPool ==
    { [EventFile(h, n) EXCEPT !.timestamp_resolution = r, !.time_origin = o] :
        h \in 0..1, n \in 1..2, r \in {1, 30000}, o \in Origins }

InfoLists ==
    { <<ev>> : ev \in InfoEventPool }
    \cup { <<ev, c>> : ev \in InfoEventPool, c \in ContPool }
    \cup { <<c, ev>> : ev \in InfoEventPool, c \in ContPool }

InitInfo == SessInit(InfoLists) /\ NevIdle /\ NsxIdle

NextInfo ==
    \/ OpenEvent
    \/ OpenContinuous
    \/ ReadHeader(IngestHeaders)
    \/ FinishHeaders
    \/ ReadPacket(IngestPackets)
    \/ FinishEvent
    \/ Reorder
    \/ GetFileInfo
    \/ GetTime
    \/ GetEntity

SpecInfo == InitInfo /\ [][NextInfo]_vars

\* ---- SpecOpen: sessions whose files may fail to open. A file is one of
\* four sound files, possibly unreadable or cut short inside its headers, or
\* a file whose first bytes are no magic ("NEUR" is a file of four bytes, ""
\* an empty one); each under either extension. glob puts the .nev file, if
\* there is one, first.
SoundFiles ==
    { EventFile(0, 1), EventFile(1, 1),
      ContinuousFile("NEURALSG", 3, 2, 2), ContinuousFile("NEURALCD", 1, 1, 3) }

OpenContents ==
    { [f EXCEPT !.openable = o, !.complete = c] :
        f \in SoundFiles, o \in BOOLEAN, c \in BOOLEAN }
    \cup { [EventFile(0, 0) EXCEPT !.file_type = m] : m \in {"NEURALXX", "NEUR", ""} }

OpenLists ==
    { <<Put(f, "ext", e)>> : f \in OpenContents, e \in {"nev", "ns2"} }
    \cup { <<Put(f, "ext", e), Put(g, "ext", "ns2")>> :
             f \in OpenContents, g \in OpenContents, e \in {"nev", "ns2"} }

InitOpen == SessInit(OpenLists) /\ NevIdle /\ NsxIdle

NextOpen ==
    \/ OpenEvent
    \/ OpenContinuous
    \/ OpenFails
    \/ ReadHeader(SessionHeaders)
    \/ FinishHeaders
    \/ ReadPacket(SessionPackets)
    \/ FinishEvent
    \/ Reorder
    \/ Reclaim

SpecOpen == InitOpen /\ [][NextOpen]_vars

(***************************************************************************)
(* C1: after NSFile construction, for any order in which the event file    *)
(* and the continuous files are processed, the entity list is: all segment *)
(* and event entities in discovery order, then all analog entities grouped *)
(* by ascending sample frequency, then all neural entities sorted          *)
(* ascending by (electrode_id, unit_class); no analog entity follows a     *)
(* neural entity and no segment or event entity follows an analog entity.  *)
(***************************************************************************)
NeuralKey(e) == <<e.electrode_id, e.unit_class>>

ThreePartOrder(h, ents) ==
    /\ Len(ents) = Len(h)
    /\ { ents[i] : i \in 1..Len(ents) } = 1..Len(h)
    /\ \E a, b \in 0..Len(ents) :
        /\ a <= b
        /\ \A i \in 1..Len(ents) :
            /\ i <= a => IsType(h, ents[i], "segment") \/ IsType(h, ents[i], "event")
            /\ (a < i /\ i <= b) => IsType(h, ents[i], "analog")
            /\ b < i => IsType(h, ents[i], "neural")
        /\ \A i, j \in 1..Len(ents) :
            i < j =>
              \* the objects of heap are numbered as they were discovered
              /\ j <= a => ents[i] < ents[j]
              /\ (a < i /\ j <= b) => h[ents[i]].sample_freq <= h[ents[j]].sample_freq
              /\ b < i => KeyLess(NeuralKey(h[ents[i]]), NeuralKey(h[ents[j]]))

C1_EntityOrder == pc = "done" => ThreePartOrder(heap, entities)

\* what holds of the code: the three-part order when the event file is the
\* first file of the discovery list
C1_EventFileFirst ==
    (pc = "done" /\ IsEventFile(file_list[1])) => ThreePartOrder(heap, entities)

(***************************************************************************)
(* C2: after NSFile construction, get_entity_count() equals the number of  *)
(* NEUEVWAV extended headers of the event file, plus the number of         *)
(* distinct reason bytes among the packets with packet_id = 0, plus the    *)
(* number of distinct (electrode_id, unit_class) pairs among the packets   *)
(* with packet_id > 0, plus the sum of channel_count over the continuous   *)
(* files.                                                                  *)
(***************************************************************************)
WavHeaders == { i \in 1..Len(ev_headers) : ev_headers[i].header_type = "NEUEVWAV" }

Reasons ==
    { ev_packets[i].b : i \in { k \in 1..Len(ev_packets) : ev_packets[k].packet_id = 0 } }

UnitPairs ==
    { <<ev_packets[i].packet_id, ev_packets[i].b>> :
        i \in { k \in 1..Len(ev_packets) : ev_packets[k].packet_id > 0 } }

RECURSIVE ChannelSum(_, _)
ChannelSum(fl, i) ==
    IF i > Len(fl) THEN 0
    ELSE (IF IsEventFile(fl[i]) THEN 0 ELSE fl[i].channel_count) + ChannelSum(fl, i + 1)

C2_EntityCount ==
    pc = "done" =>
        get_entity_count(entities) =
            Cardinality(WavHeaders) + Cardinality(Reasons) + Cardinality(UnitPairs)
            + ChannelSum(file_list, 1)

\* a finished session with entities of all four sources, two packets of one
\* unit among them
C2_Witness ==
    /\ pc = "done"
    /\ Cardinality(WavHeaders) = 2 /\ Cardinality(UnitPairs) = 1
    /\ Len(ev_packets) = 2
    /\ ChannelSum(file_list, 1) = 4
    /\ get_entity_count(entities) = 7

(***************************************************************************)
(* C3: get_file_info().file_type is "NEURALEV" when the session holds only *)
(* an event file, "NEURALEV+ NEURAL" when it holds an event file and at    *)
(* least one continuous (NEURALSG or NEURALCD) file, and "NEURAL" when it  *)
(* holds only continuous files.  The string is checked on the files the    *)
(* session holds at every point of its construction and in the answer of   *)
(* get_file_info.                                                          *)
(***************************************************************************)
\* the files of the discovery list that the session has opened
Opened ==
    SubSeq(file_list, 1, IF pc = "open" THEN fi - 1 ELSE Min(fi, Len(file_list)))

HoldsEvent == \E i \in 1..Len(Opened) : Opened[i].file_type = "NEURALEV"
HoldsContinuous ==
    \E i \in 1..Len(Opened) : Opened[i].file_type \in {"NEURALSG", "NEURALCD"}

C4_PacketCount ==
    (nev.bytes_data_packet > 0 /\ nev.size >= nev.bytes_headers) =>
        /\ nev.n_data_packets * nev.bytes_data_packet + nev.bytes_headers <= nev.size
        /\ nev.size < (nev.n_data_packets + 1) * nev.bytes_data_packet
                        + nev.bytes_headers
        /\ (nev.bytes_data_packet = 104 /\ nev.size - nev.bytes_headers = 10403)
              => nev.n_data_packets = 100

\* the example file, and a file with a short final packet
C4_Witness ==
    /\ nev.bytes_data_packet = 104 /\ nev.size - nev.bytes_headers = 10403
    /\ nev.n_data_packets = 100
    /\ lastOp.op = "get_data_packet" /\ lastOp.arg = 99 /\ lastOp.did_read

Ingested == \E i \in 1..(fi - 1) : IsEventFile(file_list[i])

Ordinals == 0..(Len(ev_packets) - 1)

EventOrdinals(reason) ==
    { k \in Ordinals : ev_packets[k + 1].packet_id = 0 /\ ev_packets[k + 1].b = reason }

SegmentOrdinals(electrode_id) ==
    { k \in Ordinals : ev_packets[k + 1].packet_id = electrode_id }

TableOrdinals(e) == [ i \in 1..Len(e.packet_data) |-> e.packet_data[i][2] ]

StrictlyIncreasing(s) == \A i \in 1..(Len(s) - 1) : s[i] < s[i + 1]

ItsOrdinals(e) ==
    IF e.entity_type = "event" THEN EventOrdinals(e.reason)
    ELSE SegmentOrdinals(e.electrode_id)

PacketsInTimeOrder ==
    \A k \in 1..(Len(ev_packets) - 1) :
        ev_packets[k].timestamp <= ev_packets[k + 1].timestamp

C8_Timestamps ==
    (Ingested /\ PacketsInTimeOrder) =>
        \A id \in 1..Len(heap) :
            LET e == heap[id] IN
            HasTable(e) =>
                /\ \A i \in 0..(e.item_count - 1) :
                    /\ get_time_by_index(e, i).err = ""
                    /\ get_item_data(e, i).err = ""
                /\ \A i \in 0..(e.item_count - 2) :
                    /\ TimeLessEq(get_time_by_index(e, i).time,
                                  get_time_by_index(e, i + 1).time)
                    /\ TimeLessEq(get_item_data(e, i).time,
                                  get_item_data(e, i + 1).time)

\* the second item of an entity is read, and it is later than the first
C8_Witness ==
    /\ pc = "done" /\ PacketsInTimeOrder
    /\ info.op = "get_item_data" /\ info.err = "" /\ info.index = 1
    /\ info.time = <<3, 30000>>
    /\ get_item_data(heap[info.entity], 0).time = <<1, 30000>>

(***************************************************************************)
(* C9: for every entity whose index table is non-decreasing and every      *)
(* index i in 0..item_count-1,                                             *)
(* get_time_by_index(get_index_by_time(get_time_by_index(i), at)) is       *)
(* get_time_by_index(i), also when several items share a timestamp.        *)
(***************************************************************************)
NonDecreasingTable(e) ==
    \A k \in 1..(Len(e.packet_data) - 1) :
        e.packet_data[k][1] <= e.packet_data[k + 1][1]

C9_RoundTrip ==
    Ingested =>
        \A id \in 1..Len(heap) :
            LET e == heap[id] IN
            (HasTable(e) /\ NonDecreasingTable(e)) =>
                \A i \in 0..(e.item_count - 1) :
                    LET t == get_time_by_index(e, i)
                        j == get_index_by_time(e, t.time, "at")
                        u == get_time_by_index(e, j.index)
                    IN /\ t.err = "" /\ j.err = "" /\ u.err = ""
                       /\ u.time = t.time

\* two items of an entity share the timestamp 3, a third is earlier, and the
\* caller asks for the item at 3
C9_Witness ==
    /\ pc = "done"
    /\ info.op = "get_index_by_time" /\ info.flag = "at"
    /\ info.time = <<3, 30000>> /\ info.err = "" /\ info.index = 1
    /\ LET e == heap[info.entity] IN
        /\ e.item_count = 3
        /\ get_time_by_index(e, 1).time = <<3, 30000>>
        /\ get_time_by_index(e, 2).time = <<3, 30000>>

(***************************************************************************)
(* C10: for an entity whose index table is non-decreasing and any time t,  *)
(* get_index_by_time(t, before) is the greatest index whose time is <= t   *)
(* and fails with BadIndex when there is none; get_index_by_time(t, after) *)
(* is the least index whose time is >= t; get_index_by_time(t, at) fails   *)
(* with BadIndex unless some item has the time t; and for t strictly       *)
(* between two consecutive items, before is the earlier and after the      *)
(* later.                                                                  *)
(***************************************************************************)
ItemsWhere(e, t, Holds(_, _)) ==
    { i \in 0..(e.item_count - 1) :
        /\ get_time_by_index(e, i).err = ""
        /\ Holds(get_time_by_index(e, i).time, t) }

SetMin(S) == CHOOSE x \in S : \A y \in S : x <= y

EventFilesHeld ==
    { file_list[_files[i].parser] : i \in { j \in 1..Len(_files) :
                                              _files[j].file_type = "NEURALEV" } }

\* the resolution is reported as a rate, ticks per second, or as the length
\* of a tick in seconds: either way it is that of the field
C11_TimestampResolution ==
    \A header \in EventFilesHeld :
        /\ \A i \in 1..Len(_files) :
              (Ingested /\ _files[i].file_type = "NEURALEV") =>
                  _files[i].time_span =
                      <<ev_packets[Len(ev_packets)].timestamp,
                        header.timestamp_resolution>>
        /\ info.op = "get_file_info" =>
              info.timestamp_resolution \in
                  { <<header.timestamp_resolution, 1>>,
                    <<1, header.timestamp_resolution>> }

\* where the two fields agree the reported resolution is that of the field
C11_Witness ==
    /\ info.op = "get_file_info"
    /\ \E header \in EventFilesHeld :
        /\ header.timestamp_resolution = header.sample_resolution
        /\ info.timestamp_resolution = <<1, header.timestamp_resolution>>

(***************************************************************************)
(* C12: get_file_info().time_span is the greatest of the time spans of the *)
(* files of the session, where the span of an event file is the timestamp  *)
(* of its final packet over the resolution and the span of a continuous    *)
(* file is n_data_points * period / timestamp_resolution.                  *)
(***************************************************************************)
\* the span of a file of the session, a fraction; the resolution of an event
\* file is the one its parser holds
FileSpan(f) ==
    IF IsEventFile(f)
    THEN <<ev_packets[Len(ev_packets)].timestamp, ParserResolution(f)>>
    ELSE <<f.n_data_points * f.period, f.timestamp_resolution>>

FileSpans == { FileSpan(file_list[i]) : i \in 1..Len(file_list) }

C14_GetEntity ==
    info.op = "get_entity" =>
        IF info.entity_index >= 0 /\ info.entity_index < get_entity_count(entities)
        THEN info.err = "" /\ info.entity = entities[info.entity_index + 1]
        ELSE info.err = "BadEntity"

\* within the range the entity of that place is returned, and past the end
\* the call fails
C14_InRange ==
    info.op = "get_entity" =>
        /\ (info.entity_index >= 0 /\ info.entity_index < get_entity_count(entities))
             => (info.err = "" /\ info.entity = entities[info.entity_index + 1])
        /\ info.entity_index >= get_entity_count(entities) => info.err = "BadEntity"

(***************************************************************************)
(* C15: after NSFile construction the session's sequence of file handles   *)
(* holds exactly one handle for each discovered file, in discovery order,  *)
(* for every mix of event, continuous-v1 and continuous-v2 files.          *)
(***************************************************************************)
C15_OneHandlePerFile ==
    pc = "done" =>
        /\ Len(_files) = Len(file_list)
        /\ \A i \in 1..Len(_files) : _files[i].parser = i

\* without the second entry of a NEURALSG file the handles are those of the
\* files, in discovery order
RECURSIVE Distinct(_)
Distinct(s) ==
    IF Len(s) <= 1 THEN s
    ELSE IF s[1] = s[2] THEN Distinct(Tail(s))
    ELSE <<s[1]>> \o Distinct(Tail(s))

C15_UpToRepeats ==
    pc = "done" =>
        Distinct([ i \in 1..Len(_files) |-> _files[i].parser ])
            = [ i \in 1..Len(file_list) |-> i ]

(***************************************************************************)
(* C13: ParserFactory returns a NevParser, an Nsx21Parser or an Nsx22Parser*)
(* exactly when the first 8 bytes of the file are NEURALEV, NEURALSG or    *)
(* NEURALCD, whatever the extension of the file, and fails with BadFile    *)
(* for every other first 8 bytes, for a file shorter than 8 bytes and for  *)
(* a file that cannot be opened.                                           *)
(***************************************************************************)
Magics == {"NEURALEV", "NEURALSG", "NEURALCD"}

\* the entries of _files that hold the parser of file i
HandlesOf(i) == { j \in 1..Len(_files) : _files[j].parser = i }

\* ParserFactory raised on file i
FactoryFailed(i) == pc = "failed" /\ i = fi /\ HandlesOf(i) = {}

\* ParserFactory has been called on file i
FactoryCalled(i) == HandlesOf(i) # {} \/ FactoryFailed(i)

\* ParserFactory returned the parser whose class is that of magic file_type
ReturnedFor(i, file_type) ==
    /\ HandlesOf(i) # {}
    /\ \A j \in HandlesOf(i) : _files[j].file_type = file_type

C16_ClosedOnFailure == pc = "failed" => fids = {}

\* a construction that failed before it opened anything leaves nothing open
C16_NothingOpened ==
    (pc = "failed" /\ fi = 1 /\ ~file_list[1].openable) => fids = {}

(***************************************************************************)
(* C17: for a continuous-v1 file, Nsx21Parser.get_analog_data(c, s, n)     *)
(* with 0 <= c < channel_count and s + n <= n_data_points returns n values,*)
(* the k-th of which is the sample stored at byte offset                   *)
(* header_size + ((s + k) * channel_count + c) * 2, for every k in 0..n-1. *)
(***************************************************************************)
C17_SampleOffsets ==
    ( /\ nsx.file_type = "NEURALSG" /\ analog.called
      /\ analog.index_count # None
      /\ analog.channel >= 0 /\ analog.channel < nsx.channel_count
      /\ analog.start_index + analog.index_count <= nsx.n_data_points )
    => /\ analog.result = "waveform"
       /\ Len(analog.offsets) = analog.index_count
       /\ \A k \in 0..(analog.index_count - 1) :
            analog.offsets[k + 1] =
                nsx.header_size
                + ((analog.start_index + k) * nsx.channel_count + analog.channel) * 2

\* the two samples of the second channel of a two-channel file
C17_Witness ==
    /\ nsx.file_type = "NEURALSG" /\ nsx.channel_count = 2
    /\ analog.called /\ analog.channel = 1 /\ analog.start_index = 0
    /\ analog.index_count = 2 /\ nsx.n_data_points = 2
    /\ analog.offsets = <<nsx.header_size + 2, nsx.header_size + 6>>

(***************************************************************************)
(* C20: for both continuous parsers, get_analog_data(channel, start, None) *)
(* reads from start to the end of the data: it behaves as                  *)
(* get_analog_data(channel, start, n_data_points - start).                 *)
(***************************************************************************)
\* what get_analog_data(channel, start_index, index_count) answers on parser
\* p for a count that is given
AnalogAnswer(p, channel, start_index, index_count) ==
    IF index_count < 0 THEN [ result |-> "ValueError", offsets |-> <<>> ]
    ELSE [ result |-> "waveform",
           offsets |-> ReadBins(p, FirstSample(p, channel, start_index), 0,
                                index_count) ]

\* stated for a start inside the data, where "to the end" leaves no doubt
NoneReadsToEnd(file_types) ==
    ( /\ analog.called /\ analog.index_count = None
      /\ nsx.file_type \in file_types
      /\ analog.start_index < nsx.n_data_points )
    => [ result |-> analog.result, offsets |-> analog.offsets ]
         = AnalogAnswer(nsx, analog.channel, analog.start_index,
                        nsx.n_data_points - analog.start_index)

C20_NoneToEnd == NoneReadsToEnd({"NEURALSG", "NEURALCD"})

\* the continuous-v1 parser does so
C20_NoneToEndV1 == NoneReadsToEnd({"NEURALSG"})

(***************************************************************************)
(* C18: after the ingest of an event file, the label of a segment entity   *)
(* is the label of the NEUEVLBL header whose packet id is the entity's     *)
(* electrode id, whether that header comes before or after the NEUEVWAV    *)
(* header of the electrode: the order of the two headers does not matter.  *)
(***************************************************************************)
C18_Labels ==
    Ingested =>
        \A id \in 1..Len(heap), i \in 1..Len(ev_headers) :
            ( /\ heap[id].entity_type = "segment"
              /\ ev_headers[i].header_type = "NEUEVLBL"
              /\ ev_headers[i].packet_id = heap[id].electrode_id )
            => heap[id].label = SplitNul(ev_headers[i].label)

\* the label came first and waited for its electrode
C18_Witness ==
    /\ Ingested /\ pc = "done"
    /\ Len(ev_headers) = 2
    /\ ev_headers[1].header_type = "NEUEVLBL" /\ ev_headers[1].packet_id = 1
    /\ ev_headers[2].header_type = "NEUEVWAV" /\ ev_headers[2].packet_id = 1
    /\ \E id \in 1..Len(heap) :
        /\ heap[id].entity_type = "segment" /\ heap[id].electrode_id = 1
        /\ heap[id].label = <<"e", "1">>

\* the electrode came first and the label was attached at once
C18_WitnessAfter ==
    /\ Ingested /\ pc = "done"
    /\ Len(ev_headers) = 2
    /\ ev_headers[1].header_type = "NEUEVWAV" /\ ev_headers[1].packet_id = 1
    /\ ev_headers[2].header_type = "NEUEVLBL" /\ ev_headers[2].packet_id = 1
    /\ \E id \in 1..Len(heap) :
        /\ heap[id].entity_type = "segment" /\ heap[id].electrode_id = 1
        /\ heap[id].label = <<"e", "1">>

(***************************************************************************)
(* C19: NSFile.get_time() returns the origin calendar time of the event    *)
(* header unchanged: its year, month, day, hour, minute, second and        *)
(* millisecond are those of the header's origin timestamp.                 *)
(***************************************************************************)
C19_GetTime ==
    info.op = "get_time" =>
        /\ info.err = ""
        /\ \A header \in EventFilesHeld : info.time = header.time_origin

\* the date and the hour are those of the header
C19_DateAndHour ==
    info.op = "get_time" =>
        /\ info.err = ""
        /\ \A header \in EventFilesHeld :
            /\ info.time.year = header.time_origin.year
            /\ info.time.month = header.time_origin.month
            /\ info.time.day = header.time_origin.day
            /\ info.time.hour = header.time_origin.hour

(***************************************************************************)
(* C21: get_extended_header(index) of the event parser and of the          *)
(* continuous-v2 parser fails with BadIndex, reading nothing, for every    *)
(* index outside 0..(number of extended headers - 1), the number of        *)
(* extended headers itself included, and otherwise reads the header at     *)
(* basic_header_size + index * extended_header_size.  C21_ExtendedHeader   *)
(* states it of the continuous-v2 parser, whose extended headers are its   *)
(* channel_count CC headers; C21_EventParser states it of the event        *)
(* parser.                                                                 *)
(***************************************************************************)
C21_ExtendedHeader ==
    nsxOp.op = "get_extended_header" =>
        IF 0 <= nsxOp.arg /\ nsxOp.arg < nsx.channel_count
        THEN /\ nsxOp.did_read
             /\ nsxOp.offset = NEURALCD_SIZE + nsxOp.arg * CC_SIZE
             /\ nsxOp.result # "BadIndex"
        ELSE /\ nsxOp.result = "BadIndex"
             /\ ~nsxOp.did_read

\* the same of the event parser, which refuses the index n_ext_headers
C21_EventParser ==
    lastOp.op = "get_extended_header" =>
        IF 0 <= lastOp.arg /\ lastOp.arg < nev.n_ext_headers
        THEN /\ lastOp.did_read
             /\ lastOp.offset = NEURALEV_SIZE + lastOp.arg * NEV_EXT_HEADER_SIZE
             /\ lastOp.result # "BadIndex"
        ELSE /\ lastOp.result = "BadIndex"
             /\ ~lastOp.did_read

\* the event parser has refused the index n_ext_headers of a file that has
\* an extended header
C21_EventParserRefuses ==
    /\ lastOp.op = "get_extended_header"
    /\ nev.n_ext_headers >= 1
    /\ lastOp.arg = nev.n_ext_headers
    /\ lastOp.result = "BadIndex"

(***************************************************************************)
(* C22: for every event file with bytes_data_packet >= 8, even or odd, the *)
(* k-th packet that the enumeration get_data_packets() yields is decoded   *)
(* from the bytes at bytes_headers + k * bytes_data_packet, the bytes that *)
(* get_data_packet(k) decodes, for every k in 0..n_data_packets-1.  The    *)
(* enumeration runs alone: no other read comes between two pulls.          *)
(***************************************************************************)
SequentialAsRandom(strides) ==
    ( /\ lastOp.op = "get_data_packets" /\ lastOp.did_read
      /\ nev.bytes_data_packet >= 8
      /\ nev.bytes_data_packet \in strides ) =>
        /\ lastOp.arg \in 0..(nev.n_data_packets - 1)
        /\ lastOp.offset = PacketPosition(nev, lastOp.arg)
        /\ lastOp.got = nev.data_packet_size

C22_SequentialRead == SequentialAsRandom(PacketBytes)

\* the same of the even strides alone, where a packet is decoded whole
C22_EvenStride == SequentialAsRandom({ b \in PacketBytes : b % 2 = 0 })

\* the enumeration has yielded the last packet of a file of several packets
\* at an even stride
C22_EvenStrideWitness ==
    /\ lastOp.op = "get_data_packets" /\ lastOp.did_read
    /\ nev.bytes_data_packet % 2 = 0
    /\ nev.n_data_packets >= 2
    /\ lastOp.arg = nev.n_data_packets - 1
    /\ lastOp.result = "NEVSegment"

(***************************************************************************)
(* C23: a lazy enumeration (get_extended_headers or get_data_packets)      *)
(* keeps its own position: whatever other reads of the same parser         *)
(* (get_basic_header, get_data_packet(k), get_extended_header(k)) come     *)
(* between two pulls, pull k reads the element that pull k of an           *)
(* enumeration left alone reads, the one that starts k elements after the  *)
(* first.                                                                  *)
(***************************************************************************)
C23_OwnPosition ==
    (lastOp.op \in {"get_extended_headers", "get_data_packets"} /\ lastOp.did_read) =>
        lastOp.offset =
            IF lastOp.op = "get_extended_headers"
            THEN NEURALEV_SIZE + lastOp.arg * NEV_EXT_HEADER_SIZE
            ELSE nev.bytes_headers + lastOp.arg * nev.data_packet_size

(***************************************************************************)
(* C24: NSFile construction completes without error for a discovery set    *)
(* that holds only well-formed continuous files (no event file, so no      *)
(* segment or event entity), and the entity list is then the analog        *)
(* entities in ascending order of sample frequency.                        *)
(***************************************************************************)
ContinuousOnly ==
    /\ file_list # <<>>
    /\ \A i \in 1..Len(file_list) : ~IsEventFile(file_list[i])

C24_ContinuousOnly ==
    ContinuousOnly =>
        /\ pc # "failed" /\ err = ""
        /\ pc = "done" =>
              /\ \A i \in 1..Len(entities) : IsType(heap, entities[i], "analog")
              /\ \A i, j \in 1..Len(entities) :
                    i < j => heap[entities[i]].sample_freq
                               <= heap[entities[j]].sample_freq

(***************************************************************************)
(* C25: NSFile construction completes without error for a well-formed      *)
(* event file that holds no data packet: the ingest of the file does not   *)
(* fail, and once it is over the session has one segment entity per        *)
(* NEUEVWAV header, each with item_count 0, no event or neural entity, and *)
(* an event-file time span of 0.                                           *)
(***************************************************************************)
\* the entities of type entity_type that the file at place i has made
EntitiesOf(i, entity_type) ==
    { e \in 1..Len(heap) : heap[e].parser = i /\ heap[e].entity_type = entity_type }

C25_ZeroPackets ==
    \A i \in 1..Len(file_list) :
        (IsEventFile(file_list[i]) /\ file_list[i].n_data_packets = 0) =>
            /\ ~(pc = "failed" /\ fi = i)
            /\ fi > i =>
                  /\ Cardinality(EntitiesOf(i, "segment")) =
                        Cardinality({ k \in 1..Len(ev_headers) :
                                        ev_headers[k].header_type = "NEUEVWAV" })
                  /\ \A e \in EntitiesOf(i, "segment") : heap[e].item_count = 0
                  /\ EntitiesOf(i, "event") = {} /\ EntitiesOf(i, "neural") = {}
                  /\ \A k \in 1..Len(_files) :
                        _files[k].parser = i => _files[k].time_span[1] = 0

(***************************************************************************)
(* C26: every failure of NSFile construction that the content of a file    *)
(* causes is reported as one of the four declared error kinds (BadFile,    *)
(* BadIndex, BadEntity, LibError).  C26_UnknownElectrode states the case   *)
(* the claim singles out, an event file with a spike packet whose packet   *)
(* id matches no NEUEVWAV extended header; C26_DeclaredKinds states it of  *)
(* every failure.                                                          *)
(***************************************************************************)
DeclaredKinds == {"BadFile", "BadIndex", "BadEntity", "LibError"}

\* the packet read last is a spike of an electrode that no NEUEVWAV header
\* of the file declares
UndeclaredSpike ==
    /\ ev_packets # <<>>
    /\ ev_packets[Len(ev_packets)].packet_id # 0
    /\ ev_packets[Len(ev_packets)].packet_id \notin DOMAIN entity_search

C26_UnknownElectrode ==
    (pc = "failed" /\ UndeclaredSpike) => err \in DeclaredKinds

C26_DeclaredKinds == pc = "failed" => err \in DeclaredKinds

(***************************************************************************)
(* C27: after every step of the ingest of an event file, each processed    *)
(* data packet, for every electrode id the item counts of the neural       *)
(* entities made for that electrode add up to the number of spike packets  *)
(* processed so far with that packet id, which is the item_count of the    *)
(* segment entity that receives the packets of that electrode.             *)
(***************************************************************************)
\* the neural entities made for electrode electrode_id
NeuralOf(electrode_id) ==
    { e \in 1..Len(heap) :
        heap[e].entity_type = "neural" /\ heap[e].electrode_id = electrode_id }

RECURSIVE SumItemCounts(_)
SumItemCounts(E) ==
    IF E = {} THEN 0
    ELSE LET e == CHOOSE x \in E : TRUE
         IN heap[e].item_count + SumItemCounts(E \ {e})

\* the spike packets of packet id electrode_id processed so far
SpikesOf(electrode_id) ==
    Cardinality({ k \in 1..Len(ev_packets) : ev_packets[k].packet_id = electrode_id })

C27_NeuralCounts ==
    \A electrode_id \in DOMAIN entity_search :
        /\ SumItemCounts(NeuralOf(electrode_id)) = SpikesOf(electrode_id)
        /\ SpikesOf(electrode_id) = heap[entity_search[electrode_id]].item_count

\* during the ingest of the data packets: two electrodes are declared, one
\* has spiked in two unit classes and the other not yet
C27_Witness ==
    /\ pc = "packets"
    /\ Cardinality(DOMAIN entity_search) = 2
    /\ \E electrode_id \in DOMAIN entity_search :
          /\ Cardinality(NeuralOf(electrode_id)) = 2
          /\ heap[entity_search[electrode_id]].item_count = 2
    /\ \E electrode_id \in DOMAIN entity_search : SpikesOf(electrode_id) = 0
====
